---- MODULE Spec2Model ----
(***************************************************************************)
(* A model of pal-rs: the colour model, the grid sampler, the three       *)
(* palette builders, the saturation transform, the cache codec and the    *)
(* cache-or-build run of main.                                            *)
(*                                                                         *)
(* Numbers.  Channels are u8 values 0..255.  The f32 luminance            *)
(*   (0.2126 r + 0.7152 g + 0.0722 b) / 255                               *)
(* is kept exactly, as the integer 2126 r + 7152 g + 722 b over the       *)
(* denominator LUM_ONE = 2550000; the literals 0.05, 0.95 and 0.08 are    *)
(* the integers LUM_LOW, LUM_HIGH and LUM_NEAR over the same denominator. *)
(* Euclidean distances are compared by their squares (sqrt is strictly    *)
(* monotone on the integers below 2^24, also after rounding to f32).      *)
(***************************************************************************)
EXTENDS Integers, Sequences, FiniteSets, TLC

VARIABLES
    img,        \* the decoded image: [w, h, pat]
    method,     \* conf.method: "aaverage" | "kmeans" | "ansi"
    saturation, \* conf.saturation as a fraction [num, den]
    pc,         \* position in the run
    x, y,       \* the grid point the scan is at
    samples,    \* Vec<Color> samples
    darkest,    \* running extremum, returned as background
    lightest,   \* running extremum, returned as foreground
    palette,    \* Vec<Color> palette (aaverage, ansi)
    centers,    \* Vec<Color> centers (kmeans)
    idx,        \* loop index of the selection / matching loop
    iter,       \* kmeans refinement iterations done
    scheme,     \* the Colorscheme returned, or NoScheme
    arg,        \* the argument of a function applied on its own
    content,    \* the text of a cache record being written or read
    ret,        \* the value a function applied on its own returned
    disk,       \* the image file at image_uri: [mtime, image]
    cache,      \* the cache directory: cache key -> file text, or NoFile
    key,        \* the cache key of the current run
    runs,       \* runs of main started so far
    hist        \* cache key -> the Colorscheme of the run that wrote its file

scanVars == <<x, y, samples, darkest, lightest, palette, centers, idx, iter>>
pureVars == <<arg, content, ret>>
runVars == <<disk, cache, key, runs, hist>>
others == <<pureVars, runVars>>

vars == <<img, method, saturation, pc, scheme, scanVars, pureVars, runVars>>

----------------------------------------------------------------------------
(* Program constants *)

DIVISOR == 32
SAMPLE_COUNT == 1024
PALETTE_COUNT == 16
KMEANS_ITERS == 10
MANH_MIN == 50
SEED_STRIDE == 64
DIST_INF == 195076
LUM_ONE == 2550000
LUM_LOW == 127500
LUM_HIGH == 2422500
LUM_NEAR == 204000

(* Bounds of the model *)

MaxDim == 5     \* small images have width and height in 0..MaxDim
BigW == 40      \* a large image, step 1, more than 1024 grid points
BigH == 32
WideW == 95     \* a large image, step 2, more than 1024 grid points
WideH == 70
MaxPalette == 2 \* cache round trips of palettes of 0..MaxPalette colours
MaxRuns == 2    \* runs of main in a row
MaxMTime == 1   \* the image file's mtime is in 0..MaxMTime seconds
MaxLines == 3   \* cache records of 0..MaxLines lines are read

----------------------------------------------------------------------------
(* Color *)

Max2(a, b) == IF a >= b THEN a ELSE b
Min2(a, b) == IF a <= b THEN a ELSE b
Abs(a) == IF a < 0 THEN -a ELSE a

\* The element of a one-element set.  The({e : v \in {a}}) is e with v
\* bound to the value of a, computed once before e is (let v = a; e).
The(S) == CHOOSE r \in S : TRUE

\* The sequence s with every element computed (iterator.collect()).
collect(s) == SelectSeq(s, LAMBDA e : TRUE)

ChromaOf(r, g, b) == Max2(Max2(r, g), b) - Min2(Min2(r, g), b)
LuminanceOf(r, g, b) == 2126 * r + 7152 * g + 722 * b

from_rgba(r, g, b) ==
    [r |-> r, g |-> g, b |-> b,
     chroma |-> ChromaOf(r, g, b), luminance |-> LuminanceOf(r, g, b)]

\* The square of Color::distance_to.
distance_to(c, o) ==
    (c.r - o.r) * (c.r - o.r) + (c.g - o.g) * (c.g - o.g) + (c.b - o.b) * (c.b - o.b)

DarkestInit == [r |-> 255, g |-> 255, b |-> 255, chroma |-> 0, luminance |-> LUM_ONE]
LightestInit == [r |-> 0, g |-> 0, b |-> 0, chroma |-> 0, luminance |-> 0]

NoScheme == [none |-> TRUE]
NoColor == [none |-> TRUE]
NoArg == [none |-> TRUE]
NoFile == [nofile |-> TRUE]

----------------------------------------------------------------------------
(* Images: a width, a height and a pixel accessor given by a pattern *)

Patterns ==
    {"black", "white", "nearwhite", "neardark", "gray", "clear",
     "quad", "grad", "holes", "tiles"}

BigPatterns == {"grad", "holes", "tiles"}
WidePatterns == {"grad"}

TileColor(k) ==
    <<(k * 83) % 256, (k * 151) % 256, (k * 47) % 256, 255>>

\* img.get_pixel(x, y): <<r, g, b, a>>
get_pixel(p, px, py) ==
    CASE p = "black"     -> <<0, 0, 0, 255>>
      [] p = "white"     -> <<255, 255, 255, 255>>
      [] p = "nearwhite" -> <<250, 250, 250, 255>>
      [] p = "neardark"  -> <<5, 5, 5, 255>>
      [] p = "gray"      -> <<128, 128, 128, 255>>
      [] p = "clear"     -> <<0, 0, 0, 0>>
      [] p = "quad"      -> IF px < 4 /\ py < 4 THEN <<255, 0, 0, 255>>
                                                ELSE <<0, 0, 0, 255>>
      [] p = "grad"      -> <<(px * 7) % 256, (py * 9) % 256,
                              ((px + py) * 5) % 256, 255>>
      [] p = "holes"     -> <<(px * 40) % 256, (py * 60) % 256, 200,
                              IF (px + py) % 3 = 0 THEN 0 ELSE 255>>
      [] p = "tiles"     -> TileColor((px \div 4) + 7 * (py \div 4))

Images ==
    [w : 0..MaxDim, h : 0..MaxDim, pat : Patterns]
    \cup [w : {BigW}, h : {BigH}, pat : BigPatterns]
    \cup [w : {WideW}, h : {WideH}, pat : WidePatterns]

Methods == {"aaverage", "kmeans", "ansi"}

----------------------------------------------------------------------------
(* Sampler *)

step(n) == Max2(n \div DIVISOR, 1)
step_x == step(img.w)
step_y == step(img.h)

BlockCells == {<<kx, ky>> : kx \in 0..3, ky \in 0..3}

RECURSIVE SumCells(_, _, _, _, _)
SumCells(p, bx, by, cells, ch) ==
    IF cells = {} THEN 0
    ELSE LET c == CHOOSE c \in cells : TRUE
             px == get_pixel(p, bx + c[1], by + c[2])
         IN (IF px[4] = 0 THEN 0 ELSE (IF ch = 0 THEN 1 ELSE px[ch]))
            + SumCells(p, bx, by, cells \ {c}, ch)

\* The sums are divided by 16, the transparent pixels counted in.
sample_4by4_area_AllPixels(im, bx, by) ==
    IF bx + 3 >= im.w \/ by + 3 >= im.h THEN NoColor
    ELSE IF SumCells(im.pat, bx, by, BlockCells, 0) = 0 THEN NoColor
    ELSE from_rgba(SumCells(im.pat, bx, by, BlockCells, 1) \div 16,
                   SumCells(im.pat, bx, by, BlockCells, 2) \div 16,
                   SumCells(im.pat, bx, by, BlockCells, 3) \div 16)

\* sample_4by4_area: NoColor for None, else the Color of the block's mean.
sample_4by4_area(im, bx, by) ==
    IF bx + 3 >= im.w \/ by + 3 >= im.h THEN NoColor
    ELSE LET count == SumCells(im.pat, bx, by, BlockCells, 0)
         IN IF count = 0 THEN NoColor
            ELSE from_rgba(SumCells(im.pat, bx, by, BlockCells, 1) \div count,
                           SumCells(im.pat, bx, by, BlockCells, 2) \div count,
                           SumCells(im.pat, bx, by, BlockCells, 3) \div count)

\* The sample the scan takes at grid point (px, py): block mode for
\* aaverage and ansi, point mode (alpha ignored) for kmeans.
SampleAt(m, im, px, py) ==
    IF m = "kmeans"
    THEN LET p == get_pixel(im.pat, px, py) IN from_rgba(p[1], p[2], p[3])
    ELSE sample_4by4_area(im, px, py)

UpdateDarkest_NoFloor(d, c) ==
    IF c.luminance < d.luminance THEN c ELSE d

UpdateDarkest(d, c) ==
    IF c.luminance < d.luminance /\ c.luminance > LUM_LOW THEN c ELSE d

UpdateLightest(l, c) ==
    IF c.luminance > l.luminance /\ c.luminance < LUM_HIGH THEN c ELSE l

HasPoint == y < img.h /\ x < img.w

\* The grid point after (x, y) in row-major order; y = img.h when none is left.
Advance ==
    IF x + step_x < img.w THEN x' = x + step_x /\ y' = y
    ELSE /\ x' = 0
         /\ y' = IF y + step_y < img.h THEN y + step_y ELSE img.h

----------------------------------------------------------------------------
(* Sorting by chroma, descending.  sort_unstable_by leaves the order of    *)
(* equal elements to the implementation: rev chooses between keeping and   *)
(* reversing the order of each run of equal chroma.                        *)

RECURSIVE Reverse(_)
Reverse(s) ==
    IF Len(s) <= 1 THEN s
    ELSE LET m == Len(s) \div 2
         IN Reverse(SubSeq(s, m + 1, Len(s))) \o Reverse(SubSeq(s, 1, m))

\* The samples of chroma lo..hi, highest chroma first.
RECURSIVE SortBuckets(_, _, _, _, _)
SortBuckets(s, keys, lo, hi, rev) ==
    IF keys \cap (lo..hi) = {} THEN <<>>
    ELSE IF lo = hi
    THEN LET bucket == SelectSeq(s, LAMBDA c : c.chroma = lo)
         IN IF rev THEN Reverse(bucket) ELSE bucket
    ELSE LET m == (lo + hi) \div 2
         IN SortBuckets(s, keys, m + 1, hi, rev) \o SortBuckets(s, keys, lo, m, rev)

sort_by_chroma(s, rev) ==
    SortBuckets(s, {s[i].chroma : i \in 1..Len(s)}, 0, 255, rev)

----------------------------------------------------------------------------
(* The scan, common to the three builders *)

AfterScan(rev) ==
    /\ samples' = IF method = "ansi" THEN samples ELSE sort_by_chroma(samples, rev)
    /\ pc' = CASE method = "aaverage" -> "select"
               [] method = "kmeans"   -> "seed"
               [] method = "ansi"     -> "match"
    /\ idx' = 1
    /\ UNCHANGED <<others, img, method, saturation, x, y, darkest, lightest,
                   palette, centers, iter, scheme>>

\* break 'pixels: 1024 samples are held and a grid point is left.
ScanBreak ==
    /\ pc = "scan"
    /\ HasPoint
    /\ Len(samples) >= SAMPLE_COUNT
    /\ \E rev \in BOOLEAN : AfterScan(rev)

\* The loops run out of grid points.
ScanEnd ==
    /\ pc = "scan"
    /\ ~HasPoint
    /\ \E rev \in BOOLEAN : AfterScan(rev)

\* continue: sample_4by4_area returned None.
ScanSkip ==
    /\ pc = "scan"
    /\ HasPoint
    /\ Len(samples) < SAMPLE_COUNT
    /\ SampleAt(method, img, x, y) = NoColor
    /\ Advance
    /\ UNCHANGED <<others, img, method, saturation, pc, samples, darkest, lightest,
                   palette, centers, idx, iter, scheme>>

ScanSample_NoCap ==
    /\ pc = "scan"
    /\ HasPoint
    /\ LET c == SampleAt(method, img, x, y)
       IN /\ c # NoColor
          /\ darkest' = UpdateDarkest(darkest, c)
          /\ lightest' = UpdateLightest(lightest, c)
          /\ samples' = Append(samples, c)
    /\ Advance
    /\ UNCHANGED <<others, img, method, saturation, pc, palette, centers, idx, iter, scheme>>

ScanSample ==
    /\ pc = "scan"
    /\ HasPoint
    /\ Len(samples) < SAMPLE_COUNT
    /\ LET c == SampleAt(method, img, x, y)
       IN /\ c # NoColor
          /\ darkest' = UpdateDarkest(darkest, c)
          /\ lightest' = UpdateLightest(lightest, c)
          /\ samples' = Append(samples, c)
    /\ Advance
    /\ UNCHANGED <<others, img, method, saturation, pc, palette, centers, idx, iter, scheme>>

----------------------------------------------------------------------------
(* Saturation transform *)

Saturations ==
    {[num |-> 0, den |-> 1], [num |-> 1, den |-> 2],
     [num |-> 1, den |-> 1], [num |-> 2, den |-> 1]}

\* The channel rounded to the nearest integer instead of truncated.
SaturateChannel_Round(v, lum, s) ==
    LET n == lum * s.den + (10000 * v - lum) * s.num
        d == 10000 * s.den
    IN IF n <= 0 THEN 0
       ELSE IF n >= 255 * d THEN 255
       ELSE (2 * n + d) \div (2 * d)

\* (gray + (v - gray) * saturation).clamp(0.0, 255.0) as u8, with
\* gray = luminance * 255.0 = lum / 10000 and saturation = s.num / s.den.
\* The arithmetic is exact; the f32 arithmetic of the code can differ from
\* it only where the exact value lies within rounding error of an integer.
SaturateChannel(v, lum, s) ==
    LET n == lum * s.den + (10000 * v - lum) * s.num
        d == 10000 * s.den
    IN IF n <= 0 THEN 0
       ELSE IF n >= 255 * d THEN 255
       ELSE n \div d

\* The channels are rewritten and chroma and luminance left as they were.
with_saturation_StaleFields(c, s) ==
    IF s.num = s.den \/ c.chroma = 0 THEN c
    ELSE [c EXCEPT !.r = SaturateChannel(c.r, c.luminance, s),
                   !.g = SaturateChannel(c.g, c.luminance, s),
                   !.b = SaturateChannel(c.b, c.luminance, s)]

\* Color::with_saturation
with_saturation(c, s) ==
    IF s.num = s.den \/ c.chroma = 0 THEN c
    ELSE from_rgba(SaturateChannel(c.r, c.luminance, s),
                   SaturateChannel(c.g, c.luminance, s),
                   SaturateChannel(c.b, c.luminance, s))

\* Colorscheme::with_saturation
scheme_with_saturation(cs, s) ==
    [palette |-> [i \in 1..Len(cs.palette) |-> with_saturation(cs.palette[i], s)],
     background |-> with_saturation(cs.background, s),
     foreground |-> with_saturation(cs.foreground, s)]

----------------------------------------------------------------------------
(* Area-Average builder: the greedy acceptance loop *)

\* diff_bg < 0.08 || diff_fg < 0.08
IsReserved(s, d, l) ==
    \/ Abs(s.luminance - d.luminance) < LUM_NEAR
    \/ Abs(s.luminance - l.luminance) < LUM_NEAR

manh_d(a, b) == Abs(a.r - b.r) + Abs(a.g - b.g) + Abs(a.b - b.b)

\* The sample is compared with the last palette entry only.
distinct_last(s, pal) ==
    IF Len(pal) = 0 THEN TRUE ELSE manh_d(s, pal[Len(pal)]) >= MANH_MIN

distinct(s, pal) == \A i \in 1..Len(pal) : manh_d(s, pal[i]) >= MANH_MIN

\* The loop is left (samples exhausted, or break at 16): the palette is
\* sorted again and the Colorscheme returned.
Return(pal, rev) ==
    /\ scheme' = [palette |-> sort_by_chroma(pal, rev),
                  background |-> darkest, foreground |-> lightest]
    /\ pc' = "built"

SelectReject ==
    /\ pc = "select"
    /\ idx <= Len(samples)
    /\ IsReserved(samples[idx], darkest, lightest)
    /\ idx' = idx + 1
    /\ UNCHANGED <<others, img, method, saturation, pc, x, y, samples, darkest, lightest,
                   palette, centers, iter, scheme>>

SelectClose ==
    /\ pc = "select"
    /\ idx <= Len(samples)
    /\ ~IsReserved(samples[idx], darkest, lightest)
    /\ ~distinct(samples[idx], palette)
    /\ idx' = idx + 1
    /\ UNCHANGED <<others, img, method, saturation, pc, x, y, samples, darkest, lightest,
                   palette, centers, iter, scheme>>

SelectAccept ==
    /\ pc = "select"
    /\ idx <= Len(samples)
    /\ ~IsReserved(samples[idx], darkest, lightest)
    /\ distinct(samples[idx], palette)
    /\ Len(palette) + 1 < PALETTE_COUNT
    /\ palette' = Append(palette, samples[idx])
    /\ idx' = idx + 1
    /\ UNCHANGED <<others, img, method, saturation, pc, x, y, samples, darkest, lightest,
                   centers, iter, scheme>>

SelectFull ==
    /\ pc = "select"
    /\ idx <= Len(samples)
    /\ ~IsReserved(samples[idx], darkest, lightest)
    /\ distinct(samples[idx], palette)
    /\ Len(palette) + 1 >= PALETTE_COUNT
    /\ palette' = Append(palette, samples[idx])
    /\ \E rev \in BOOLEAN : Return(palette', rev)
    /\ UNCHANGED <<others, img, method, saturation, x, y, samples, darkest, lightest,
                   centers, idx, iter>>

SelectEnd ==
    /\ pc = "select"
    /\ idx > Len(samples)
    /\ \E rev \in BOOLEAN : Return(palette, rev)
    /\ UNCHANGED <<others, img, method, saturation, x, y, samples, darkest, lightest,
                   palette, centers, idx, iter>>

----------------------------------------------------------------------------
(* K-Means builder *)

\* samples[i * (SAMPLE_COUNT / PALETTE_COUNT)] for i in 0..16: the last
\* index read is 15 * 64, so the Vec needs more than 960 elements.
SeedCenters ==
    /\ pc = "seed"
    /\ Len(samples) > (PALETTE_COUNT - 1) * SEED_STRIDE
    /\ centers' = [i \in 1..PALETTE_COUNT |-> samples[(i - 1) * SEED_STRIDE + 1]]
    /\ iter' = 0
    /\ pc' = "refine"
    /\ UNCHANGED <<others, img, method, saturation, x, y, samples, darkest, lightest,
                   palette, idx, scheme>>

\* Indexing past the end of samples panics.
SeedPanic ==
    /\ pc = "seed"
    /\ Len(samples) <= (PALETTE_COUNT - 1) * SEED_STRIDE
    /\ pc' = "panic"
    /\ UNCHANGED <<others, img, method, saturation, x, y, samples, darkest, lightest,
                   palette, centers, idx, iter, scheme>>

\* The lowest index of a centre at minimum distance: dist < best_dist.
RECURSIVE BestFrom(_, _, _, _, _)
BestFrom(s, cs, k, best_idx, best_dist) ==
    IF k > Len(cs) THEN best_idx
    ELSE LET dist == distance_to(s, cs[k])
         IN IF dist < best_dist THEN BestFrom(s, cs, k + 1, k, dist)
            ELSE BestFrom(s, cs, k + 1, best_idx, best_dist)

best_idx_of(s, cs) == BestFrom(s, cs, 1, 1, DIST_INF)

\* The cluster each sample is added to; 0 for a sample the loop skips.
Assignment(ss, cs, d, l) ==
    collect([i \in 1..Len(ss) |->
        IF IsReserved(ss[i], d, l) THEN 0 ELSE best_idx_of(ss[i], cs)])

RECURSIVE SumField(_, _, _, _)
SumField(ss, lo, hi, f) ==
    IF lo > hi THEN 0
    ELSE IF lo = hi THEN ss[lo][f]
    ELSE LET m == (lo + hi) \div 2
         IN SumField(ss, lo, m, f) + SumField(ss, m + 1, hi, f)

\* The samples added to cluster k.
cluster(ss, asg, k) ==
    The({collect([i \in 1..Len(ms) |-> ms[i].c]) :
            ms \in {SelectSeq([i \in 1..Len(ss) |-> [c |-> ss[i], k |-> asg[i]]],
                              LAMBDA t : t.k = k)}})

\* A cluster no sample was added to is reset to black.
new_center_ResetEmpty(ss, asg, k, old) ==
    The({IF Len(cs) > 0
         THEN from_rgba(SumField(cs, 1, Len(cs), "r") \div Len(cs),
                        SumField(cs, 1, Len(cs), "g") \div Len(cs),
                        SumField(cs, 1, Len(cs), "b") \div Len(cs))
         ELSE from_rgba(0, 0, 0) :
            cs \in {cluster(ss, asg, k)}})

\* The centre of cluster k after the iteration: the truncated mean of the
\* samples added to it, or the old centre when none was.
new_center(ss, asg, k, old) ==
    The({IF Len(cs) > 0
         THEN from_rgba(SumField(cs, 1, Len(cs), "r") \div Len(cs),
                        SumField(cs, 1, Len(cs), "g") \div Len(cs),
                        SumField(cs, 1, Len(cs), "b") \div Len(cs))
         ELSE old :
            cs \in {cluster(ss, asg, k)}})

\* One refinement iteration: the new centres.
refine(ss, cs, d, l) ==
    The({collect([k \in 1..Len(cs) |-> new_center(ss, asg, k, cs[k])]) :
            asg \in {Assignment(ss, cs, d, l)}})

KMeansIter ==
    /\ pc = "refine"
    /\ iter < KMEANS_ITERS
    /\ centers' = refine(samples, centers, darkest, lightest)
    /\ iter' = iter + 1
    /\ UNCHANGED <<others, img, method, saturation, pc, x, y, samples, darkest, lightest,
                   palette, idx, scheme>>

KMeansReturn ==
    /\ pc = "refine"
    /\ iter >= KMEANS_ITERS
    /\ \E rev \in BOOLEAN : Return(centers, rev)
    /\ UNCHANGED <<others, img, method, saturation, x, y, samples, darkest, lightest,
                   palette, centers, idx, iter>>

----------------------------------------------------------------------------
(* ANSI-Match builder *)

ANSI_BASE ==
    << <<0, 0, 0>>,      <<205, 0, 0>>,   <<0, 205, 0>>,   <<205, 205, 0>>,
       <<0, 0, 238>>,    <<205, 0, 205>>, <<0, 205, 205>>, <<229, 229, 229>>,
       <<127, 127, 127>>, <<255, 0, 0>>,  <<0, 255, 0>>,   <<255, 255, 0>>,
       <<92, 92, 255>>,  <<255, 0, 255>>, <<0, 255, 255>>, <<255, 255, 255>> >>

\* The index of the first sample of ss[lo..hi] at minimum distance to base.
RECURSIVE BestSample(_, _, _, _)
BestSample(ss, lo, hi, base) ==
    IF lo = hi THEN lo
    ELSE The({IF distance_to(ss[b], base) < distance_to(ss[a], base) THEN b ELSE a :
                 a \in {BestSample(ss, lo, (lo + hi) \div 2, base)},
                 b \in {BestSample(ss, (lo + hi) \div 2 + 1, hi, base)}})

\* let mut best_sample = &samples[0] panics on an empty Vec.
MatchPanic ==
    /\ pc = "match"
    /\ idx <= Len(ANSI_BASE)
    /\ Len(samples) = 0
    /\ pc' = "panic"
    /\ UNCHANGED <<others, img, method, saturation, x, y, samples, darkest, lightest,
                   palette, centers, idx, iter, scheme>>

MatchBase ==
    /\ pc = "match"
    /\ idx <= Len(ANSI_BASE)
    /\ Len(samples) > 0
    /\ LET t == ANSI_BASE[idx]
           base == from_rgba(t[1], t[2], t[3])
       IN palette' = Append(palette, samples[BestSample(samples, 1, Len(samples), base)])
    /\ idx' = idx + 1
    /\ UNCHANGED <<others, img, method, saturation, pc, x, y, samples, darkest, lightest,
                   centers, iter, scheme>>

\* palette[0] = darkest; palette[15] = lightest; return.
AnsiReturn ==
    /\ pc = "match"
    /\ idx > Len(ANSI_BASE)
    /\ palette' = [palette EXCEPT ![1] = darkest, ![16] = lightest]
    /\ scheme' = [palette |-> palette', background |-> darkest,
                  foreground |-> lightest]
    /\ pc' = "built"
    /\ UNCHANGED <<others, img, method, saturation, x, y, samples, darkest, lightest,
                   centers, idx, iter>>

----------------------------------------------------------------------------
(* main applies the saturation transform to what the builder returned *)

Saturate ==
    /\ pc = "built"
    /\ saturation' \in Saturations
    /\ scheme' = scheme_with_saturation(scheme, saturation')
    /\ pc' = "done"
    /\ UNCHANGED <<others, img, method, x, y, samples, darkest, lightest,
                   palette, centers, idx, iter>>

----------------------------------------------------------------------------
(* The builders on every image of the model *)

Init ==
    /\ img \in Images
    /\ method \in Methods
    /\ saturation = [num |-> 1, den |-> 1]
    /\ pc = "scan"
    /\ x = 0
    /\ y = 0
    /\ samples = <<>>
    /\ darkest = DarkestInit
    /\ lightest = LightestInit
    /\ palette = <<>>
    /\ centers = <<>>
    /\ idx = 1
    /\ iter = 0
    /\ scheme = NoScheme
    /\ arg = NoArg
    /\ content = NoFile
    /\ ret = NoArg
    /\ disk = NoFile
    /\ cache = NoFile
    /\ key = NoArg
    /\ runs = 0
    /\ hist = NoArg

Next ==
    \/ ScanBreak \/ ScanEnd \/ ScanSkip \/ ScanSample
    \/ SelectReject \/ SelectClose \/ SelectAccept \/ SelectFull \/ SelectEnd
    \/ SeedCenters \/ SeedPanic \/ KMeansIter \/ KMeansReturn
    \/ MatchPanic \/ MatchBase \/ AnsiReturn
    \/ Saturate

Spec == Init /\ [][Next]_vars

----------------------------------------------------------------------------
(* Claims about the builders *)

Scanned == pc # "scan"
Returned == pc \in {"built", "done"}

\* C1: each of the three builders runs to completion on every image,
\* degenerate ones included, and returns a Colorscheme; none panics.
C1_BuildersNeverPanic == pc # "panic"

\* C2: the scan visits grid points at multiples of the steps in row-major
\* order, never holds more than 1024 samples, and once 1024 are held the
\* next step leaves the scan without sampling or touching the extrema,
\* which nothing changes afterwards.
C2_ScanCapped ==
    /\ [](/\ Len(samples) <= 1024
          /\ pc = "scan" =>
                /\ x % (IF img.w \div 32 >= 1 THEN img.w \div 32 ELSE 1) = 0
                /\ y % (IF img.h \div 32 >= 1 THEN img.h \div 32 ELSE 1) = 0)
    /\ [][/\ (pc = "scan" /\ pc' = "scan") => (y' > y \/ (y' = y /\ x' > x))
          /\ (pc = "scan" /\ Len(samples) >= 1024) =>
                /\ pc' # "scan"
                /\ Len(samples') = Len(samples)
                /\ <<x', y', darkest', lightest'>> = <<x, y, darkest, lightest>>
          /\ pc # "scan" =>
                /\ Len(samples') = Len(samples)
                /\ <<darkest', lightest'>> = <<darkest, lightest>>]_vars

\* The scan broke in the middle of a row with 1024 samples held.
C2_Witness ==
    /\ Scanned
    /\ Len(samples) = 1024
    /\ x > 0
    /\ y < img.h

JustScanned == pc \in {"select", "seed", "match"} /\ idx = 1

LumsAbove(lo, hi) ==
    {samples[i].luminance : i \in {j \in 1..Len(samples) :
        samples[j].luminance > lo /\ samples[j].luminance < hi}}

\* C3 as stated: darkest and lightest are the extrema among the samples
\* with 0.05 < L < 0.95, so either is its default or has such a luminance.
C3_ExtremaWithinBothBounds ==
    Scanned =>
        /\ darkest # DarkestInit =>
              darkest.luminance > LUM_LOW /\ darkest.luminance < LUM_HIGH
        /\ lightest # LightestInit =>
              lightest.luminance > LUM_LOW /\ lightest.luminance < LUM_HIGH

\* C3 amended: darkest is a sample of minimum luminance among the samples
\* with 0.05 < L < 1.0 (the default when there is none), lightest a sample
\* of maximum luminance among those with 0.0 < L < 0.95 (the default when
\* there is none); they are returned as background and foreground.
C3_ExtremaOneSided ==
    /\ JustScanned =>
          /\ IF LumsAbove(LUM_LOW, LUM_ONE) = {} THEN darkest = DarkestInit
             ELSE /\ \E i \in 1..Len(samples) : samples[i] = darkest
                  /\ darkest.luminance > LUM_LOW
                  /\ \A v \in LumsAbove(LUM_LOW, LUM_ONE) : darkest.luminance <= v
          /\ IF LumsAbove(0, LUM_HIGH) = {} THEN lightest = LightestInit
             ELSE /\ \E i \in 1..Len(samples) : samples[i] = lightest
                  /\ lightest.luminance < LUM_HIGH
                  /\ \A v \in LumsAbove(0, LUM_HIGH) : lightest.luminance >= v
    /\ pc = "built" =>
          scheme.background = darkest /\ scheme.foreground = lightest

\* A scan whose darkest sample lies at or above 0.95 and one whose lightest
\* lies at or below 0.05.
C3_Witness ==
    /\ pc = "built"
    /\ \/ scheme.background.luminance \in (LUM_HIGH..(LUM_ONE - 1))
       \/ scheme.foreground.luminance \in (1..LUM_LOW)
    /\ Len(samples) > 0

\* C4: the Area-Average palette never holds more than 16 entries, and any
\* two of its entries are at Manhattan distance 50 or more, at every step
\* of the acceptance loop and in the palette returned.
C4_PaletteDistinct ==
    method = "aaverage" =>
        LET far(p) ==
                /\ Len(p) <= 16
                /\ \A i, j \in 1..Len(p) :
                      i < j =>
                        Abs(p[i].r - p[j].r) + Abs(p[i].g - p[j].g)
                          + Abs(p[i].b - p[j].b) >= 50
        IN /\ far(palette)
           /\ pc = "built" => far(scheme.palette)

\* The loop broke at 16 entries with samples left, after rejections.
C4_Witness ==
    /\ method = "aaverage"
    /\ pc = "built"
    /\ Len(scheme.palette) = 16
    /\ idx < Len(samples)
    /\ idx > 16

\* C5: for every image the ANSI-Match builder returns 16 entries, the
\* first the darkest sample and the last the lightest, which are also the
\* background and the foreground.
C5_AnsiReturnsSixteen ==
    (method = "ansi" /\ pc \notin {"scan", "match"}) =>
        /\ pc \in {"built", "done"}
        /\ pc = "built" =>
              /\ Len(scheme.palette) = 16
              /\ scheme.palette[1] = darkest
              /\ scheme.palette[16] = lightest
              /\ scheme.background = darkest
              /\ scheme.foreground = lightest

\* What holds of the ANSI-Match builder whenever it does return.
AnsiReturnShape ==
    (method = "ansi" /\ pc = "built") =>
        /\ Len(scheme.palette) = 16
        /\ scheme.palette[1] = darkest
        /\ scheme.palette[16] = lightest
        /\ scheme.background = darkest
        /\ scheme.foreground = lightest

----------------------------------------------------------------------------
(* Color::with_saturation applied on its own *)

ChannelValues == {0, 64, 128, 200, 255}

Colors == {from_rgba(r, g, b) : r \in ChannelValues, g \in ChannelValues, b \in ChannelValues}

Idle ==
    /\ img = NoArg
    /\ method = "none"
    /\ saturation = [num |-> 1, den |-> 1]
    /\ scheme = NoScheme
    /\ x = 0
    /\ y = 0
    /\ samples = <<>>
    /\ darkest = DarkestInit
    /\ lightest = LightestInit
    /\ palette = <<>>
    /\ centers = <<>>
    /\ idx = 1
    /\ iter = 0

InitSat ==
    /\ Idle
    /\ pc = "sat_call"
    /\ arg \in [c : Colors, saturation : Saturations]
    /\ ret = NoArg
    /\ content = NoFile
    /\ disk = NoFile
    /\ cache = NoFile
    /\ key = NoArg
    /\ runs = 0
    /\ hist = NoArg

ApplySaturation ==
    /\ pc = "sat_call"
    /\ ret' = with_saturation(arg.c, arg.saturation)
    /\ pc' = "sat_ret"
    /\ UNCHANGED <<img, method, saturation, scheme, scanVars, arg, content, runVars>>

SpecSat == InitSat /\ [][ApplySaturation]_vars

\* C6 as stated: at factor 0.0 the three channels equal
\* round(luminance * 255) and the chroma is 0.
C6_GrayIsRounded ==
    (pc = "sat_ret" /\ arg.saturation.num = 0) =>
        /\ ret.r = (arg.c.luminance + 5000) \div 10000
        /\ ret.g = ret.r
        /\ ret.b = ret.r
        /\ ret.chroma = 0

\* C6 amended: at factor 0.0 the three channels equal the integer part of
\* luminance * 255 (truncated, not rounded) and the chroma is 0.
C6_GrayIsTruncated ==
    (pc = "sat_ret" /\ arg.saturation.num = 0) =>
        /\ ret.r = arg.c.luminance \div 10000
        /\ ret.g = ret.r
        /\ ret.b = ret.r
        /\ ret.chroma = 0

\* A chromatic colour whose gray point has a fraction of a half or more.
C6_Witness ==
    /\ pc = "sat_ret"
    /\ arg.saturation.num = 0
    /\ arg.c.chroma > 0
    /\ arg.c.luminance % 10000 >= 5000

----------------------------------------------------------------------------
(* Cache codec.  A text is a sequence of one-character strings. *)

Exit == [exit |-> 1]

HexDigits == <<"0", "1", "2", "3", "4", "5", "6", "7",
               "8", "9", "a", "b", "c", "d", "e", "f">>
UpperDigits == <<"0", "1", "2", "3", "4", "5", "6", "7",
                 "8", "9", "A", "B", "C", "D", "E", "F">>

\* {:x}: lowercase hexadecimal without padding.
fmt_x(v) ==
    IF v < 16 THEN <<HexDigits[v + 1]>>
    ELSE <<HexDigits[(v \div 16) + 1], HexDigits[(v % 16) + 1]>>

\* {:02x}: two lowercase hexadecimal digits, zero-padded.
fmt_02x(v) == <<HexDigits[(v \div 16) + 1], HexDigits[(v % 16) + 1]>>

\* writeln!(content, "#{:02x}{:02x}{:02x}", c.r, c.g, c.b)
writeln_color(c) == <<"#">> \o fmt_02x(c.r) \o fmt_02x(c.g) \o fmt_02x(c.b) \o <<"\n">>

RECURSIVE writeln_palette(_)
writeln_palette(p) ==
    IF Len(p) = 0 THEN <<>> ELSE writeln_color(Head(p)) \o writeln_palette(Tail(p))

\* The String that write_scheme_cache hands to fs::write.
cache_text(cs) ==
    writeln_color(cs.background) \o writeln_color(cs.foreground)
        \o writeln_palette(cs.palette)

\* str::lines: the text split at "\n"; no empty last line after a final "\n".
lines(t) ==
    LET nl == {i \in 1..Len(t) : t[i] = "\n"}
        n == Cardinality(nl)
        at(k) == CHOOSE i \in nl : Cardinality({j \in nl : j < i}) = k - 1
        from(k) == IF k = 1 THEN 1 ELSE at(k - 1) + 1
        last == IF n = 0 THEN 1 ELSE at(n) + 1
        whole == [k \in 1..n |-> SubSeq(t, from(k), at(k) - 1)]
    IN IF last <= Len(t) THEN Append(whole, SubSeq(t, last, Len(t))) ELSE whole

IsSpace(ch) == ch \in {" ", "\t", "\r"}

\* str::trim
trim(l) ==
    LET ink == {i \in 1..Len(l) : ~IsSpace(l[i])}
    IN IF ink = {} THEN <<>>
       ELSE SubSeq(l, CHOOSE i \in ink : \A j \in ink : i <= j,
                      CHOOSE i \in ink : \A j \in ink : i >= j)

\* str::trim_start_matches('#'): every leading '#' is removed.
trim_start_matches_hash(l) ==
    LET rest == {i \in 1..Len(l) : l[i] # "#"}
    IN IF rest = {} THEN <<>>
       ELSE SubSeq(l, CHOOSE i \in rest : \A j \in rest : i <= j, Len(l))

\* char::to_digit(16), -1 for None.
to_digit(ch) ==
    IF \E i \in 1..16 : HexDigits[i] = ch
    THEN (CHOOSE i \in 1..16 : HexDigits[i] = ch) - 1
    ELSE IF \E i \in 1..16 : UpperDigits[i] = ch
    THEN (CHOOSE i \in 1..16 : UpperDigits[i] = ch) - 1
    ELSE -1

RECURSIVE digits_value(_, _)
digits_value(d, acc) ==
    IF acc < 0 \/ Len(d) = 0 THEN acc
    ELSE IF to_digit(Head(d)) < 0 \/ acc * 16 + to_digit(Head(d)) > 255 THEN -1
    ELSE digits_value(Tail(d), acc * 16 + to_digit(Head(d)))

\* u8::from_str_radix(s, 16), -1 for Err: an empty string and a lone sign
\* are errors, one leading '+' is accepted, '-' is no digit of a u8.
from_str_radix(t) ==
    IF Len(t) = 0 THEN -1
    ELSE IF Len(t) = 1 /\ t[1] \in {"+", "-"} THEN -1
    ELSE IF t[1] = "+" THEN digits_value(Tail(t), 0)
    ELSE digits_value(t, 0)

\* parse_hex_line: a Color, or Exit for exit(1).
parse_hex_line(t) ==
    IF Len(t) # 6 THEN Exit
    ELSE LET r == from_str_radix(SubSeq(t, 1, 2))
             g == from_str_radix(SubSeq(t, 3, 4))
             b == from_str_radix(SubSeq(t, 5, 6))
         IN IF r < 0 \/ g < 0 \/ b < 0 THEN Exit ELSE from_rgba(r, g, b)

\* read_scheme_cache on the text of the file: a Colorscheme, or Exit.
read_scheme_cache(t) ==
    LET kept == SelectSeq(lines(t), LAMBDA l : trim(l) # <<>>)
        ls == [i \in 1..Len(kept) |-> trim(trim_start_matches_hash(kept[i]))]
        cols == [i \in 1..Len(ls) |-> parse_hex_line(ls[i])]
    IN IF Len(ls) < 2 THEN Exit
       ELSE IF \E i \in 1..Len(ls) : cols[i] = Exit THEN Exit
       ELSE [palette |-> SubSeq(cols, 3, Len(cols)),
             background |-> cols[1], foreground |-> cols[2]]

----------------------------------------------------------------------------
(* The codec applied on its own: a Colorscheme written and read back, and  *)
(* a record of arbitrary lines read.                                       *)

CodecColors ==
    {from_rgba(0, 0, 0), from_rgba(255, 255, 255), from_rgba(10, 171, 9),
     from_rgba(1, 35, 69), from_rgba(171, 205, 239)}

RECURSIVE SeqsUpTo(_, _)
SeqsUpTo(S, n) ==
    IF n = 0 THEN {<<>>}
    ELSE LET shorter == SeqsUpTo(S, n - 1)
         IN shorter \cup {Append(q, e) : q \in {r \in shorter : Len(r) = n - 1}, e \in S}

Schemes ==
    [palette : SeqsUpTo(CodecColors, MaxPalette),
     background : CodecColors, foreground : CodecColors]

LineSamples ==
    {<<"#", "0", "0", "0", "0", "0", "0">>,
     <<"f", "f", "f", "f", "f", "f">>,
     <<"#", "0", "a", "F", "3", "c", "9">>,
     <<>>,
     <<" ", " ">>,
     <<"#", "1", "2", "3", "4", "5">>,
     <<"#", "1", "2", "3", "4", "5", "6", "7">>,
     <<"#", "g", "g", "0", "0", "0", "0">>,
     <<"#", "#", "a", "1", "b", "2", "c", "3">>,
     <<"a", "1", "b", "2", "c", "3", " ">>,
     <<"+", "1", "+", "2", "+", "3">>,
     <<"#", "-", "1", "0", "0", "0", "0">>,
     <<"#">>,
     <<" ", "#", "a", "1", "b", "2", "c", "3">>}

RECURSIVE JoinLines(_)
JoinLines(q) ==
    IF Len(q) = 0 THEN <<>> ELSE Head(q) \o <<"\n">> \o JoinLines(Tail(q))

Records == {JoinLines(q) : q \in SeqsUpTo(LineSamples, MaxLines)}

InitCodec ==
    /\ Idle
    /\ \/ pc = "write_call" /\ arg \in Schemes /\ content = NoFile
       \/ pc = "read_call" /\ arg = NoArg /\ content \in Records
    /\ ret = NoArg
    /\ disk = NoFile
    /\ cache = NoFile
    /\ key = NoArg
    /\ runs = 0
    /\ hist = NoArg

WriteSchemeCache ==
    /\ pc = "write_call"
    /\ content' = cache_text(arg)
    /\ pc' = "read_call"
    /\ UNCHANGED <<img, method, saturation, scheme, scanVars, arg, ret, runVars>>

ReadSchemeCache ==
    /\ pc = "read_call"
    /\ ret' = read_scheme_cache(content)
    /\ pc' = "read_ret"
    /\ UNCHANGED <<img, method, saturation, scheme, scanVars, arg, content, runVars>>

SpecCodec == InitCodec /\ [][WriteSchemeCache \/ ReadSchemeCache]_vars

rgb(c) == <<c.r, c.g, c.b>>

\* C7: a Colorscheme written by write_scheme_cache and read back by
\* read_scheme_cache has the same r, g, b for the background, the
\* foreground and every palette entry, in the same order.
C7_RoundTrip ==
    (pc = "read_ret" /\ arg # NoArg) =>
        /\ ret # Exit
        /\ rgb(ret.background) = rgb(arg.background)
        /\ rgb(ret.foreground) = rgb(arg.foreground)
        /\ Len(ret.palette) = Len(arg.palette)
        /\ \A i \in 1..Len(arg.palette) : rgb(ret.palette[i]) = rgb(arg.palette[i])

\* A palette of two different colours and a channel below 16 came back.
C7_Witness ==
    /\ pc = "read_ret"
    /\ arg # NoArg
    /\ Len(arg.palette) >= 2
    /\ arg.palette[1] # arg.palette[2]
    /\ arg.palette[1].r < 16
    /\ ret # Exit

HexChars == {HexDigits[i] : i \in 1..16} \cup {UpperDigits[i] : i \in 1..16}

Blank(l) == \A i \in 1..Len(l) : l[i] \in {" ", "\t", "\r"}

\* One optional leading '#', then exactly 6 hexadecimal digits.
StrictLine(l) ==
    LET t == IF Len(l) > 0 /\ l[1] = "#" THEN Tail(l) ELSE l
    IN Len(t) = 6 /\ \A i \in 1..6 : t[i] \in HexChars

\* C8: reading ends in the fatal error whenever the record has fewer than
\* two non-blank lines or a non-blank line that is not 6 hexadecimal digits
\* after one optional '#'; two valid lines give an empty palette.
C8_StrictRead ==
    (pc = "read_ret" /\ arg = NoArg) =>
        LET nb == SelectSeq(lines(content), LAMBDA l : ~Blank(l))
        IN /\ (Len(nb) < 2 \/ \E i \in 1..Len(nb) : ~StrictLine(nb[i])) => ret = Exit
           /\ (Len(nb) = 2 /\ \A i \in 1..2 : StrictLine(nb[i])) =>
                 (ret # Exit /\ ret.palette = <<>>)

\* What holds of the reader: records of strict lines are read, line by line.
ReadsStrictRecords ==
    (pc = "read_ret" /\ arg = NoArg) =>
        LET nb == SelectSeq(lines(content), LAMBDA l : ~Blank(l))
        IN /\ Len(nb) < 2 => ret = Exit
           /\ (Len(nb) >= 2 /\ \A i \in 1..Len(nb) : StrictLine(nb[i])) =>
                 (ret # Exit /\ Len(ret.palette) = Len(nb) - 2)

----------------------------------------------------------------------------
(* Formatting one Color: format_color of the template step and the         *)
(* println! calls of the verbose output (the text of the line, without the *)
(* line terminator println! adds).                                         *)

Formats == {"HEX", "RGB"}

\* {}: a u8 in decimal, without padding.
fmt_dec(v) ==
    IF v < 10 THEN <<HexDigits[v + 1]>>
    ELSE IF v < 100 THEN <<HexDigits[(v \div 10) + 1], HexDigits[(v % 10) + 1]>>
    ELSE <<HexDigits[(v \div 100) + 1], HexDigits[((v \div 10) % 10) + 1],
           HexDigits[(v % 10) + 1]>>

\* template.rs: format_color
format_color(c, format) ==
    IF format = "HEX"
    THEN <<"#">> \o fmt_02x(c.r) \o fmt_02x(c.g) \o fmt_02x(c.b)
    ELSE <<"r", "g", "b", "(">> \o fmt_dec(c.r) \o <<",">> \o fmt_dec(c.g)
            \o <<",">> \o fmt_dec(c.b) \o <<")">>

\* main.rs: the line printed for one colour under conf.verbose
verbose_line(c, format) ==
    IF format = "HEX"
    THEN <<"#">> \o fmt_02x(c.r) \o fmt_02x(c.g) \o fmt_02x(c.b)
    ELSE <<"r", "g", "b", "(">> \o fmt_dec(c.r) \o <<",", " ">> \o fmt_dec(c.g)
            \o <<",", " ">> \o fmt_dec(c.b) \o <<")">>

InitFmt ==
    /\ Idle
    /\ pc = "fmt_call"
    /\ arg \in [c : Colors, format : Formats]
    /\ ret = [template |-> NoArg, verbose |-> NoArg]
    /\ content = NoFile
    /\ disk = NoFile
    /\ cache = NoFile
    /\ key = NoArg
    /\ runs = 0
    /\ hist = NoArg

\* resolve substitutes a placeholder by format_color.
FormatColor ==
    /\ pc = "fmt_call"
    /\ ret.template = NoArg
    /\ ret' = [ret EXCEPT !.template = format_color(arg.c, arg.format)]
    /\ UNCHANGED <<img, method, saturation, pc, scheme, scanVars, arg, content, runVars>>

\* main prints the colour under conf.verbose.
PrintVerbose ==
    /\ pc = "fmt_call"
    /\ ret.verbose = NoArg
    /\ ret' = [ret EXCEPT !.verbose = verbose_line(arg.c, arg.format)]
    /\ UNCHANGED <<img, method, saturation, pc, scheme, scanVars, arg, content, runVars>>

SpecFmt == InitFmt /\ [][FormatColor \/ PrintVerbose]_vars

\* C10: the template step and the verbose output give the same text for a
\* colour and a mode: #rrggbb in hex mode, rgb(r, g, b) with a comma and
\* one space between the decimal channels in rgb mode.
C10_SameText ==
    (pc = "fmt_call" /\ ret.template # NoArg /\ ret.verbose # NoArg) =>
        /\ ret.template = ret.verbose
        /\ arg.format = "HEX" =>
              /\ Len(ret.template) = 7
              /\ ret.template[1] = "#"
              /\ \A i \in 2..7 : \E k \in 1..16 : ret.template[i] = HexDigits[k]
        /\ arg.format = "RGB" =>
              ret.template = <<"r", "g", "b", "(">> \o fmt_dec(arg.c.r) \o <<",", " ">>
                                \o fmt_dec(arg.c.g) \o <<",", " ">>
                                \o fmt_dec(arg.c.b) \o <<")">>

\* What holds: the two agree in hex mode.
HexTextAgrees ==
    (pc = "fmt_call" /\ ret.template # NoArg /\ ret.verbose # NoArg
       /\ arg.format = "HEX") => ret.template = ret.verbose

----------------------------------------------------------------------------
(* The builders as functions of the image, as main calls them.  rev1 and   *)
(* rev2 are the orders the two unstable sorts leave equal elements in.     *)
(* A loop over a Vec is a fold over index ranges split in halves; the      *)
(* value carried over from the left half is computed before the right half *)
(* is entered.                                                             *)

Panic == [panic |-> TRUE]

\* The grid points of the scan in row-major order.
grid_points(im) ==
    LET sx == step(im.w)
        sy == step(im.h)
        nx == (im.w + sx - 1) \div sx
        ny == (im.h + sy - 1) \div sy
    IN collect([k \in 1..(nx * ny) |-> <<((k - 1) % nx) * sx, ((k - 1) \div nx) * sy>>])

RECURSIVE FoldDarkest(_, _, _, _)
FoldDarkest(ss, lo, hi, d) ==
    IF lo > hi THEN d
    ELSE IF lo = hi THEN UpdateDarkest(d, ss[lo])
    ELSE The({FoldDarkest(ss, (lo + hi) \div 2 + 1, hi, left) :
                 left \in {FoldDarkest(ss, lo, (lo + hi) \div 2, d)}})

RECURSIVE FoldLightest(_, _, _, _)
FoldLightest(ss, lo, hi, l) ==
    IF lo > hi THEN l
    ELSE IF lo = hi THEN UpdateLightest(l, ss[lo])
    ELSE The({FoldLightest(ss, (lo + hi) \div 2 + 1, hi, left) :
                 left \in {FoldLightest(ss, lo, (lo + hi) \div 2, l)}})

\* The samples taken at the grid points pts, in their order.
samples_at(m, im, pts) ==
    SelectSeq([k \in 1..Len(pts) |-> SampleAt(m, im, pts[k][1], pts[k][2])],
              LAMBDA c : c # NoColor)

\* The samples of the scan: the first 1024 taken.
scan_samples(m, im) ==
    The({SubSeq(got, 1, Min2(Len(got), SAMPLE_COUNT)) :
            got \in {The({samples_at(m, im, pts) : pts \in {grid_points(im)}})}})

\* The scan: the samples and their running extrema.
scan(m, im) ==
    The({[samples |-> ss,
          darkest |-> FoldDarkest(ss, 1, Len(ss), DarkestInit),
          lightest |-> FoldLightest(ss, 1, Len(ss), LightestInit)] :
            ss \in {scan_samples(m, im)}})

\* The acceptance loop over ss[lo..hi], from palette pal.
RECURSIVE accept(_, _, _, _, _, _)
accept(ss, d, l, lo, hi, pal) ==
    IF Len(pal) >= PALETTE_COUNT \/ lo > hi THEN pal
    ELSE IF lo = hi
    THEN IF ~IsReserved(ss[lo], d, l) /\ distinct(ss[lo], pal)
         THEN Append(pal, ss[lo]) ELSE pal
    ELSE The({accept(ss, d, l, (lo + hi) \div 2 + 1, hi, left) :
                 left \in {accept(ss, d, l, lo, (lo + hi) \div 2, pal)}})

\* The acceptance loop over the sorted samples, then the return.
aaverage_select(sc, rev1, rev2) ==
    The({[palette |-> sort_by_chroma(accept(ss, sc.darkest, sc.lightest, 1, Len(ss), <<>>),
                                     rev2),
          background |-> sc.darkest, foreground |-> sc.lightest] :
            ss \in {sort_by_chroma(sc.samples, rev1)}})

aaverage_generate_colorscheme(im, rev1, rev2) ==
    The({aaverage_select(sc, rev1, rev2) : sc \in {scan("aaverage", im)}})

RECURSIVE refine_times(_, _, _, _, _)
refine_times(n, ss, cs, d, l) ==
    IF n = 0 THEN cs
    ELSE The({refine_times(n - 1, ss, next, d, l) : next \in {refine(ss, cs, d, l)}})

\* The seeds, the refinement of the centres over the sorted samples ss, then
\* the return.
kmeans_refine(sc, ss, rev2) ==
    The({[palette |-> sort_by_chroma(
                         refine_times(KMEANS_ITERS, ss, seeds, sc.darkest, sc.lightest),
                         rev2),
          background |-> sc.darkest, foreground |-> sc.lightest] :
            seeds \in {collect([i \in 1..PALETTE_COUNT |-> ss[(i - 1) * SEED_STRIDE + 1]])}})

kmeans_seed(sc, rev1, rev2) ==
    IF Len(sc.samples) <= (PALETTE_COUNT - 1) * SEED_STRIDE THEN Panic
    ELSE The({kmeans_refine(sc, ss, rev2) : ss \in {sort_by_chroma(sc.samples, rev1)}})

kmeans_generate_colorscheme(im, rev1, rev2) ==
    The({kmeans_seed(sc, rev1, rev2) : sc \in {scan("kmeans", im)}})

\* The nearest sample of every base colour, then the return.
ansi_match(sc) ==
    IF Len(sc.samples) = 0 THEN Panic
    ELSE The({[palette |-> [pal EXCEPT ![1] = sc.darkest, ![16] = sc.lightest],
               background |-> sc.darkest, foreground |-> sc.lightest] :
                 pal \in {collect([k \in 1..Len(ANSI_BASE) |->
                     sc.samples[BestSample(sc.samples, 1, Len(sc.samples),
                         from_rgba(ANSI_BASE[k][1], ANSI_BASE[k][2], ANSI_BASE[k][3]))]])}})

ansi_generate_colorscheme(im) ==
    The({ansi_match(sc) : sc \in {scan("ansi", im)}})

\* match conf.method { ... }, before with_saturation.
generate_colorscheme(m, im, rev1, rev2) ==
    CASE m = "aaverage" -> aaverage_generate_colorscheme(im, rev1, rev2)
      [] m = "kmeans"   -> kmeans_generate_colorscheme(im, rev1, rev2)
      [] m = "ansi"     -> ansi_generate_colorscheme(im)

\* The builders step by step and the builders as functions agree.
StepsAgree ==
    /\ pc = "built" =>
          \E rev1, rev2 \in BOOLEAN : scheme = generate_colorscheme(method, img, rev1, rev2)
    /\ pc = "panic" => generate_colorscheme(method, img, FALSE, FALSE) = Panic

----------------------------------------------------------------------------
(* Runs of main in a row: the cache file is looked up, read or written     *)
(*                                                                         *)
(* disk is the image file at image_uri ([mtime, image], or NoFile when     *)
(* there is none); cache maps every key to the text of its .pal file, or   *)
(* NoFile.  A key stands for the file name hash_image_uri derives: the     *)
(* 64-bit hash is taken as injective on the hashed fields, and image_uri   *)
(* is the same in every run.  hist[k] records the Colorscheme the run that *)
(* wrote the file of key k went on with.                                   *)

RunSaturations == {[num |-> 1, den |-> 2], [num |-> 1, den |-> 1]}

RunImages ==
    {[w |-> 5, h |-> 5, pat |-> "grad"], [w |-> 4, h |-> 4, pat |-> "tiles"]}

NoMTime == -1

Keys == [mtime : NoMTime..MaxMTime, saturation : RunSaturations, method : Methods]

\* The mtime in whole seconds is hashed only when fs::metadata succeeds.
hash_image_uri(d, s, m) ==
    [mtime |-> IF d = NoFile THEN NoMTime ELSE d.mtime, saturation |-> s, method |-> m]

InitRun ==
    /\ Idle
    /\ pc = "idle"
    /\ arg = NoArg
    /\ ret = NoArg
    /\ content = NoFile
    /\ disk \in {NoFile} \cup [mtime : {0}, image : RunImages]
    /\ cache = [k \in Keys |-> NoFile]
    /\ key = NoArg
    /\ runs = 0
    /\ hist = [k \in Keys |-> NoArg]

\* Args::from_cli and hash_image_uri.
StartRun ==
    /\ pc = "idle"
    /\ runs < MaxRuns
    /\ runs' = runs + 1
    /\ method' \in Methods
    /\ saturation' \in RunSaturations
    /\ key' = hash_image_uri(disk, saturation', method')
    /\ pc' = "check"
    /\ UNCHANGED <<img, scheme, scanVars, pureVars, disk, cache, hist>>

\* Between two runs the image file is rewritten: another picture, in the
\* same second or a later one.
TouchImage ==
    /\ pc = "idle"
    /\ disk # NoFile
    /\ disk' \in [mtime : {disk.mtime, disk.mtime + 1} \cap (0..MaxMTime),
                  image : RunImages] \ {disk}
    /\ UNCHANGED <<img, method, saturation, pc, scheme, scanVars, pureVars,
                   cache, key, runs, hist>>

\* if hashed_image_uri.exists()
CheckExists ==
    /\ pc = "check"
    /\ pc' = IF cache[key] # NoFile THEN "read" ELSE "decode"
    /\ UNCHANGED <<img, method, saturation, scheme, scanVars, pureVars, runVars>>

\* The record read has the saturation transform applied once more.
ReadCache_Resaturate ==
    /\ pc = "read"
    /\ LET r == read_scheme_cache(cache[key])
       IN IF r = Exit THEN pc' = "exit" /\ UNCHANGED scheme
          ELSE pc' = "output" /\ scheme' = scheme_with_saturation(r, saturation)
    /\ UNCHANGED <<img, method, saturation, scanVars, pureVars, runVars>>

\* colorscheme = read_scheme_cache(&hashed_image_uri)
ReadCache ==
    /\ pc = "read"
    /\ LET r == read_scheme_cache(cache[key])
       IN IF r = Exit THEN pc' = "exit" /\ UNCHANGED scheme
          ELSE pc' = "output" /\ scheme' = r
    /\ UNCHANGED <<img, method, saturation, scanVars, pureVars, runVars>>

\* read_image(&image_uri): exit(1) when the image cannot be opened.
DecodeImage ==
    /\ pc = "decode"
    /\ IF disk = NoFile THEN pc' = "exit" /\ UNCHANGED img
       ELSE pc' = "build" /\ img' = disk.image
    /\ UNCHANGED <<method, saturation, scheme, scanVars, pureVars, runVars>>

\* match conf.method { ... => builder(&img).with_saturation(conf.saturation) }
Build ==
    /\ pc = "build"
    /\ \E rev1, rev2 \in BOOLEAN :
          LET b == generate_colorscheme(method, img, rev1, rev2)
          IN IF b = Panic THEN pc' = "panic" /\ UNCHANGED scheme
             ELSE pc' = "write" /\ scheme' = scheme_with_saturation(b, saturation)
    /\ UNCHANGED <<img, method, saturation, scanVars, pureVars, runVars>>

\* fs::write creates (or truncates) the file, then writes the content.
CreateFile ==
    /\ pc = "write"
    /\ cache' = [cache EXCEPT ![key] = <<>>]
    /\ pc' = "created"
    /\ UNCHANGED <<img, method, saturation, scheme, scanVars, pureVars,
                   disk, key, runs, hist>>

WriteAll ==
    /\ pc = "created"
    /\ cache' = [cache EXCEPT ![key] = cache_text(scheme)]
    /\ hist' = [hist EXCEPT ![key] = scheme]
    /\ pc' = "output"
    /\ UNCHANGED <<img, method, saturation, scheme, scanVars, pureVars,
                   disk, key, runs>>

\* fs::write fails, before or after the file was created: map_err's
\* closure calls exit(1).
WriteFailed ==
    /\ pc \in {"write", "created"}
    /\ pc' = "exit"
    /\ UNCHANGED <<img, method, saturation, scheme, scanVars, pureVars, runVars>>

\* The process ends: return Ok(()), exit(1) or a panic.
EndRun ==
    /\ pc \in {"output", "exit", "panic"}
    /\ pc' = "idle"
    /\ img' = NoArg
    /\ method' = "none"
    /\ saturation' = [num |-> 1, den |-> 1]
    /\ scheme' = NoScheme
    /\ key' = NoArg
    /\ UNCHANGED <<scanVars, pureVars, disk, cache, runs, hist>>

NextRun ==
    \/ StartRun
    \/ TouchImage
    \/ CheckExists
    \/ ReadCache
    \/ DecodeImage
    \/ Build
    \/ CreateFile
    \/ WriteAll
    \/ WriteFailed
    \/ EndRun

SpecRun == InitRun /\ [][NextRun]_vars

SameRGB(a, b) ==
    /\ rgb(a.background) = rgb(b.background)
    /\ rgb(a.foreground) = rgb(b.foreground)
    /\ Len(a.palette) = Len(b.palette)
    /\ \A i \in 1..Len(a.palette) : rgb(a.palette[i]) = rgb(b.palette[i])

\* C9: when the cache file of the run's key exists the run goes to the
\* read; the read takes the Colorscheme from the record as it is and leaves
\* the cache files and the undecoded image alone; decoding, building and
\* writing happen only while the file of the key does not exist; and a run
\* that comes to its output under a key some earlier run wrote has the
\* background, foreground and palette r, g, b of that run.
C9_HitReturnsFirstRun ==
    /\ []((pc = "output" /\ hist[key] # NoArg) => SameRGB(scheme, hist[key]))
    /\ [](pc \in {"decode", "build", "write"} => cache[key] = NoFile)
    /\ [][(pc = "check" /\ cache[key] # NoFile) => pc' = "read"]_vars
    /\ [][pc = "read" =>
             /\ cache' = cache
             /\ img' = img
             /\ pc' \in {"output", "exit"}
             /\ pc' = "output" => scheme' = read_scheme_cache(cache[key])]_vars

\* A run read the record an earlier run wrote under saturation 0.5: it has
\* decoded no image and goes on with a palette that has a coloured entry.
C9_Witness ==
    /\ pc = "output"
    /\ img = NoArg
    /\ hist[key] # NoArg
    /\ saturation = [num |-> 1, den |-> 2]
    /\ \E i \in 1..Len(scheme.palette) : scheme.palette[i].chroma > 0

----------------------------------------------------------------------------
(* The Colorscheme from the builder to the cache and back: what a builder  *)
(* returned has the saturation transform applied, is written by            *)
(* write_scheme_cache and is what read_scheme_cache gives a later run.     *)

ReadBack ==
    /\ pc = "done"
    /\ scheme' = read_scheme_cache(cache_text(scheme))
    /\ pc' = "cached"
    /\ UNCHANGED <<others, img, method, saturation, scanVars>>

NextDerived == Next \/ ReadBack

SpecDerived == Init /\ [][NextDerived]_vars

\* chroma and luminance are those of the Color's r, g, b.
Fresh(c) ==
    /\ c.chroma = Max2(Max2(c.r, c.g), c.b) - Min2(Min2(c.r, c.g), c.b)
    /\ c.luminance = 2126 * c.r + 7152 * c.g + 722 * c.b

\* C11: in every Colorscheme a builder returned, the saturation transform
\* produced or read_scheme_cache parsed, the background, the foreground and
\* every palette entry have chroma = max(r,g,b) - min(r,g,b) and luminance
\* = (0.2126 r + 0.7152 g + 0.0722 b) / 255 for their current r, g, b.
C11_DerivedFresh ==
    pc \in {"built", "done", "cached"} =>
        /\ Fresh(scheme.background)
        /\ Fresh(scheme.foreground)
        /\ \A i \in 1..Len(scheme.palette) : Fresh(scheme.palette[i])

\* K-Means centres were desaturated by half and read back from the record,
\* one of them still coloured.
C11_Witness ==
    /\ pc = "cached"
    /\ method = "kmeans"
    /\ saturation = [num |-> 1, den |-> 2]
    /\ \E i \in 1..Len(scheme.palette) : scheme.palette[i].chroma > 0

----------------------------------------------------------------------------
(* The block sampler at the grid points the scan visits *)

\* The 16 pixels of the block at the scan's grid point, row by row.
BlockPixels == [k \in 1..16 |-> get_pixel(img.pat, x + ((k - 1) % 4), y + ((k - 1) \div 4))]

Sum16(f) ==
    f[1] + f[2] + f[3] + f[4] + f[5] + f[6] + f[7] + f[8]
        + f[9] + f[10] + f[11] + f[12] + f[13] + f[14] + f[15] + f[16]

\* The sum of channel ch over the block's pixels with alpha # 0.
OpaqueSum(ch) == Sum16([k \in 1..16 |-> IF BlockPixels[k][4] = 0 THEN 0 ELSE BlockPixels[k][ch]])

OpaqueCount == Sum16([k \in 1..16 |-> IF BlockPixels[k][4] = 0 THEN 0 ELSE 1])

BlockInside == x + 3 <= img.w - 1 /\ y + 3 <= img.h - 1

\* m is the integer-truncated quotient of sum by n.
IsTruncatedMean(m, sum, n) == n * m <= sum /\ sum < n * (m + 1)

\* C12: at every grid point a block-mode scan visits, a sample is emitted
\* exactly when the 4x4 block lies inside the image and has a pixel with
\* alpha # 0; the sample's r, g, b are the truncated means of the channels
\* over those pixels (the colour itself when the 16 pixels are one opaque
\* colour); a skipped grid point leaves samples, darkest and lightest as
\* they were.
C12_BlockSample ==
    [][(pc = "scan" /\ method # "kmeans" /\ HasPoint /\ Len(samples) < SAMPLE_COUNT) =>
          IF BlockInside /\ OpaqueCount > 0
          THEN /\ Len(samples') = Len(samples) + 1
               /\ SubSeq(samples', 1, Len(samples)) = samples
               /\ LET c == samples'[Len(samples')]
                  IN /\ IsTruncatedMean(c.r, OpaqueSum(1), OpaqueCount)
                     /\ IsTruncatedMean(c.g, OpaqueSum(2), OpaqueCount)
                     /\ IsTruncatedMean(c.b, OpaqueSum(3), OpaqueCount)
                     /\ (\A k \in 1..16 : BlockPixels[k] = BlockPixels[1]) =>
                           <<c.r, c.g, c.b>> = SubSeq(BlockPixels[1], 1, 3)
          ELSE /\ samples' = samples
               /\ darkest' = darkest
               /\ lightest' = lightest]_vars

\* A block-mode scan of the image with transparent pixels took samples from
\* blocks that hold some, and skipped the grid points at the right edge.
C12_Witness ==
    /\ pc = "scan"
    /\ method # "kmeans"
    /\ img.pat = "holes"
    /\ Len(samples) > 0
    /\ y > 0
    /\ \E k \in 1..16 : get_pixel(img.pat, (k - 1) % 4, (k - 1) \div 4)[4] = 0

----------------------------------------------------------------------------
(* The K-Means refinement, iteration by iteration *)

\* The sample's luminance is within 0.08 of darkest's or of lightest's.
NearExtremum(c) ==
    \/ Abs(c.luminance - darkest.luminance) < 204000
    \/ Abs(c.luminance - lightest.luminance) < 204000

\* The square of the Euclidean distance in RGB.
Dist2(a, b) ==
    (a.r - b.r) * (a.r - b.r) + (a.g - b.g) * (a.g - b.g) + (a.b - b.b) * (a.b - b.b)

\* The lowest index of a centre at minimum distance from c.
Nearest(c) ==
    CHOOSE k \in 1..Len(centers) :
        /\ \A j \in 1..Len(centers) : Dist2(c, centers[k]) <= Dist2(c, centers[j])
        /\ \A j \in 1..(k - 1) : Dist2(c, centers[j]) > Dist2(c, centers[k])

\* The centroid of every sample; 0 for a sample that is assigned to none.
Assigned ==
    collect([i \in 1..Len(samples) |->
                IF NearExtremum(samples[i]) THEN 0 ELSE Nearest(samples[i])])

\* The sum of f over lo..hi.
RECURSIVE RangeSum(_, _, _)
RangeSum(f, lo, hi) ==
    IF lo > hi THEN 0
    ELSE IF lo = hi THEN f[lo]
    ELSE RangeSum(f, lo, (lo + hi) \div 2) + RangeSum(f, (lo + hi) \div 2 + 1, hi)

\* What the iteration makes of centroid k, the samples being assigned by asg.
Refined(asg, k, new) ==
    The({IF n = 0 THEN new = centers[k]
         ELSE /\ \A f \in {"r", "g", "b"} :
                    The({n * new[f] <= sum /\ sum < n * (new[f] + 1) :
                            sum \in {RangeSum([i \in 1..Len(samples) |->
                                         IF asg[i] = k THEN samples[i][f] ELSE 0],
                                         1, Len(samples))}})
              /\ Fresh(new) :
            n \in {Cardinality({i \in 1..Len(samples) : asg[i] = k})}})

\* C13: K-Means refines 16 centroids and returns after exactly 10
\* iterations; an iteration assigns every sample whose luminance is not
\* within 0.08 of darkest's or lightest's to the lowest-index centroid of
\* minimum Euclidean RGB distance, gives every centroid with assigned
\* samples their truncated mean r, g, b, and leaves a centroid without
\* assigned samples as it was, r, g, b, chroma and luminance.
C13_KMeansIteration ==
    /\ [](pc = "refine" => (Len(centers) = 16 /\ iter <= 10))
    /\ []((method = "kmeans" /\ pc \in {"built", "done"}) =>
             (iter = 10 /\ Len(scheme.palette) = 16))
    /\ [][pc = "refine" =>
             IF iter < 10
             THEN /\ pc' = "refine"
                  /\ iter' = iter + 1
                  /\ Len(centers') = 16
                  /\ The({\A k \in 1..16 : Refined(asg, k, centers'[k]) :
                             asg \in {Assigned}})
             ELSE pc' = "built"]_vars

\* Nine iterations are done, and the tenth finds a centroid with assigned
\* samples, a centroid with none, and a sample that is assigned to none.
C13_Witness ==
    /\ pc = "refine"
    /\ iter = 9
    /\ The({/\ \E k \in 1..16 : \E i \in 1..Len(samples) : asg[i] = k
            /\ \E k \in 1..16 : \A i \in 1..Len(samples) : asg[i] # k
            /\ \E i \in 1..Len(samples) : asg[i] = 0 :
               asg \in {Assigned}})

----------------------------------------------------------------------------
(* Two instances of main at once on one cache key                          *)
(*                                                                         *)
(* Both instances are given the same image, saturation and method, so they *)
(* derive the same key.  pc, img, scheme and runs hold one value for each  *)
(* instance.  hist.wrote is the set of instances that have written the     *)
(* file; hist.partial tells that an instance has read the empty file while *)
(* the other one had created it and not yet written its content.          *)

Procs == {"a", "b"}

InitRace ==
    /\ method \in Methods
    /\ saturation \in RunSaturations
    /\ disk \in {NoFile} \cup [mtime : {0}, image : RunImages]
    /\ key = hash_image_uri(disk, saturation, method)
    /\ cache = [k \in Keys |-> NoFile]
    /\ pc = [p \in Procs |-> "idle"]
    /\ img = [p \in Procs |-> NoArg]
    /\ scheme = [p \in Procs |-> NoScheme]
    /\ runs = [p \in Procs |-> 0]
    /\ hist = [wrote |-> {}, partial |-> FALSE]
    /\ x = 0
    /\ y = 0
    /\ samples = <<>>
    /\ darkest = DarkestInit
    /\ lightest = LightestInit
    /\ palette = <<>>
    /\ centers = <<>>
    /\ idx = 1
    /\ iter = 0
    /\ arg = NoArg
    /\ ret = NoArg
    /\ content = NoFile

\* An instance is started: Args::from_cli and hash_image_uri.
RaceStart(p) ==
    /\ pc[p] = "idle"
    /\ runs[p] < MaxRuns
    /\ runs' = [runs EXCEPT ![p] = runs[p] + 1]
    /\ pc' = [pc EXCEPT ![p] = "check"]
    /\ UNCHANGED <<img, method, saturation, scheme, scanVars, pureVars,
                   disk, cache, key, hist>>

\* if hashed_image_uri.exists()
RaceCheck(p) ==
    /\ pc[p] = "check"
    /\ pc' = [pc EXCEPT ![p] = IF cache[key] # NoFile THEN "read" ELSE "decode"]
    /\ UNCHANGED <<img, method, saturation, scheme, scanVars, pureVars, runVars>>

\* colorscheme = read_scheme_cache(&hashed_image_uri)
RaceRead(p) ==
    /\ pc[p] = "read"
    /\ LET r == read_scheme_cache(cache[key])
       IN IF r = Exit THEN pc' = [pc EXCEPT ![p] = "exit"] /\ UNCHANGED scheme
          ELSE pc' = [pc EXCEPT ![p] = "output"] /\ scheme' = [scheme EXCEPT ![p] = r]
    /\ hist' = [hist EXCEPT !.partial =
                    @ \/ (cache[key] = <<>> /\ \E q \in Procs \ {p} : pc[q] = "created")]
    /\ UNCHANGED <<img, method, saturation, scanVars, pureVars, disk, cache, key, runs>>

\* read_image(&image_uri): exit(1) when the image cannot be opened.
RaceDecode(p) ==
    /\ pc[p] = "decode"
    /\ IF disk = NoFile THEN pc' = [pc EXCEPT ![p] = "exit"] /\ UNCHANGED img
       ELSE pc' = [pc EXCEPT ![p] = "build"] /\ img' = [img EXCEPT ![p] = disk.image]
    /\ UNCHANGED <<method, saturation, scheme, scanVars, pureVars, runVars>>

\* match conf.method { ... => builder(&img).with_saturation(conf.saturation) }
RaceBuild(p) ==
    /\ pc[p] = "build"
    /\ \E rev1, rev2 \in BOOLEAN :
          LET b == generate_colorscheme(method, img[p], rev1, rev2)
          IN IF b = Panic THEN pc' = [pc EXCEPT ![p] = "panic"] /\ UNCHANGED scheme
             ELSE /\ pc' = [pc EXCEPT ![p] = "write"]
                  /\ scheme' = [scheme EXCEPT ![p] = scheme_with_saturation(b, saturation)]
    /\ UNCHANGED <<img, method, saturation, scanVars, pureVars, runVars>>

\* The file is created with the whole content in it, in one step.
RaceCreate_Atomic(p) ==
    /\ pc[p] = "write"
    /\ cache' = [cache EXCEPT ![key] = cache_text(scheme[p])]
    /\ pc' = [pc EXCEPT ![p] = "created"]
    /\ UNCHANGED <<img, method, saturation, scheme, scanVars, pureVars,
                   disk, key, runs, hist>>

\* fs::write creates the file, or truncates the one there is.
RaceCreate(p) ==
    /\ pc[p] = "write"
    /\ cache' = [cache EXCEPT ![key] = <<>>]
    /\ pc' = [pc EXCEPT ![p] = "created"]
    /\ UNCHANGED <<img, method, saturation, scheme, scanVars, pureVars,
                   disk, key, runs, hist>>

\* fs::write writes the content into the file it created.
RaceWrite(p) ==
    /\ pc[p] = "created"
    /\ cache' = [cache EXCEPT ![key] = cache_text(scheme[p])]
    /\ hist' = [hist EXCEPT !.wrote = @ \cup {p}]
    /\ pc' = [pc EXCEPT ![p] = "output"]
    /\ UNCHANGED <<img, method, saturation, scheme, scanVars, pureVars,
                   disk, key, runs>>

\* fs::write fails: map_err's closure calls exit(1).
RaceWriteFailed(p) ==
    /\ pc[p] \in {"write", "created"}
    /\ pc' = [pc EXCEPT ![p] = "exit"]
    /\ UNCHANGED <<img, method, saturation, scheme, scanVars, pureVars, runVars>>

\* The instance ends: return Ok(()), exit(1) or a panic.
RaceEnd(p) ==
    /\ pc[p] \in {"output", "exit", "panic"}
    /\ pc' = [pc EXCEPT ![p] = "idle"]
    /\ img' = [img EXCEPT ![p] = NoArg]
    /\ scheme' = [scheme EXCEPT ![p] = NoScheme]
    /\ UNCHANGED <<method, saturation, scanVars, pureVars, runVars>>

NextRace ==
    \E p \in Procs :
        \/ RaceStart(p)
        \/ RaceCheck(p)
        \/ RaceRead(p)
        \/ RaceDecode(p)
        \/ RaceBuild(p)
        \/ RaceCreate(p)
        \/ RaceWrite(p)
        \/ RaceWriteFailed(p)
        \/ RaceEnd(p)

SpecRace == InitRace /\ [][NextRace]_vars

\* C14: the creation and the writing of the cache file are two steps, and
\* between them the file holds an empty record, which read_scheme_cache
\* ends on with the fatal error; an instance that reads the file in that
\* window ends in that error instead of getting the complete record.  With
\* the check, the read and the write unlocked, both interleavings of the
\* race are behaviours: both instances miss the file and write it, and one
\* reads what the other has created and not yet written.
C14_RaceWindow ==
    /\ [][\A q \in Procs :
             (pc[q] = "write" /\ pc'[q] = "created") =>
                 /\ cache'[key] = <<>>
                 /\ read_scheme_cache(cache'[key]) = Exit]_vars
    /\ [][\A p \in Procs :
             (pc[p] = "read" /\ pc'[p] # "read" /\ cache[key] = <<>>) =>
                 pc'[p] = "exit"]_vars

\* Both instances missed the file, ran a builder and wrote it, and one of
\* them read the empty record the other had created and not yet written.
C14_Witness ==
    /\ hist.wrote = Procs
    /\ hist.partial

====
